---- MODULE Spec2Model ----
(***************************************************************************)
(* Citation Network Analysis Engine (backend/controllers/                  *)
(* networkController.js) together with the REST routes that drive it       *)
(* (backend/routes/network.js) and the paper store it reads.               *)
(*                                                                         *)
(* The engine is one process-wide object (networkController.js:760): every *)
(* request handler works on the same graph, paperNodes and citationEdges.  *)
(* A handler runs without interruption between two awaits; the awaits of   *)
(* buildCitationNetwork (the two store queries) are the points where       *)
(* another request can run.                                                *)
(*                                                                         *)
(* The graph object comes from the graph-data-structure package: a         *)
(* directed graph that keeps its nodes in insertion order and records one  *)
(* adjacency entry per addEdge call (parallel edges are kept); addEdge     *)
(* registers both endpoints as nodes.                                      *)
(***************************************************************************)
EXTENDS Integers, Sequences, FiniteSets, TLC

\* ------------------------------------------------------------------ bounds
NumPapers == 3      \* documents of the Paper collection
MaxCitations == 2   \* documents of the Citation collection

PaperIds == 1..NumPapers

\* Two requests in flight: the second may arrive at any point of the first.
Requests == {1, 2}

\* ------------------------------------------------------- generic helpers
Range(s) == {s[i] : i \in 1..Len(s)}

RECURSIVE SeqOfLen(_, _)
SeqOfLen(S, n) ==
  IF n = 0 THEN {<<>>}
  ELSE {Append(s, x) : s \in SeqOfLen(S, n - 1), x \in S}

SeqsUpTo(S, n) == UNION {SeqOfLen(S, k) : k \in 0..n}

\* reduce((a, b) => a + b, 0) over the values of f at S.
RECURSIVE SumOver(_, _)
SumOver(f, S) ==
  IF S = {} THEN 0
  ELSE LET x == CHOOSE y \in S : TRUE IN f[x] + SumOver(f, S \ {x})
SumFn(f) == SumOver(f, DOMAIN f)
Max(S) == CHOOSE x \in S : \A y \in S : y <= x
RemoveAt(s, i) == SubSeq(s, 1, i - 1) \o SubSeq(s, i + 1, Len(s))
\* Array.prototype.sort((a, b) => b.key - a.key) on <<key, item>> pairs:
\* descending by key, equal keys in their former order.
RECURSIVE SortDescByKey(_)
SortDescByKey(s) ==
  IF s = <<>> THEN <<>>
  ELSE LET i == CHOOSE j \in 1..Len(s) :
                  /\ \A k \in 1..Len(s) : s[k][1] <= s[j][1]
                  /\ \A k \in 1..(j - 1) : s[k][1] < s[j][1]
       IN <<s[i]>> \o SortDescByKey(RemoveAt(s, i))

\* A JavaScript number that is a quotient of two counts: n/d in lowest terms,
\* NaN for 0/0 and Infinity for a positive count over 0.
RECURSIVE Gcd(_, _)
Gcd(a, b) == IF b = 0 THEN a ELSE Gcd(b, a % b)
NaN == [n |-> 0, d |-> 0]
Infinity == [n |-> 1, d |-> 0]
JsDiv(a, b) ==
  IF b = 0 THEN (IF a = 0 THEN NaN ELSE Infinity)
  ELSE [n |-> a \div Gcd(a, b), d |-> b \div Gcd(a, b)]
JsInt(a) == [n |-> a, d |-> 1]
IsNaN(x) == x = NaN
\* x + y, x * y, x > y and x <= y of JavaScript on these numbers: an
\* operation on NaN gives NaN, a comparison with NaN is false.
JsAdd(x, y) ==
  IF IsNaN(x) \/ IsNaN(y) THEN NaN
  ELSE IF x.d = 0 \/ y.d = 0 THEN Infinity
  ELSE JsDiv(x.n * y.d + y.n * x.d, x.d * y.d)
JsMul(x, y) ==
  IF IsNaN(x) \/ IsNaN(y) THEN NaN
  ELSE IF x.d = 0 \/ y.d = 0
       THEN (IF x.n = 0 \/ y.n = 0 THEN NaN ELSE Infinity)
  ELSE JsDiv(x.n * y.n, x.d * y.d)
JsGreater(x, y) ==
  /\ ~IsNaN(x) /\ ~IsNaN(y)
  /\ IF x.d = 0 THEN y.d # 0
     ELSE y.d # 0 /\ x.n * y.d > y.n * x.d
JsLeq(x, y) == ~IsNaN(x) /\ ~IsNaN(y) /\ ~JsGreater(x, y)

\* A JavaScript Map: entries <<key, value>> in insertion order.
MapValues(m) == [i \in 1..Len(m) |-> m[i][2]]
MapHas(m, k) == \E i \in 1..Len(m) : m[i][1] = k
MapGet(m, k) == m[CHOOSE i \in 1..Len(m) : m[i][1] = k][2]
\* Map.prototype.set: an existing key keeps its position and takes the new
\* value, a new key is appended.
MapSet(m, k, v) ==
  IF MapHas(m, k)
  THEN [i \in 1..Len(m) |-> IF m[i][1] = k THEN <<k, v>> ELSE m[i]]
  ELSE Append(m, <<k, v>>)

\* ------------------------------------------------------------ the store
\* Paper documents.  The fields the engine copies are fixed per paper.
PaperCategories(p) == IF p % 2 = 1 THEN {"cs"} ELSE {"bio"}
PaperCitationCount(p) == p % 3
\* new Date().getFullYear() at the time of the run, and the year of each
\* paper's publishedDate: ages 1, 2, 3, 0, ...
CurrentYear == 2026
PaperYear(p) == CurrentYear - (p % 4)
PaperImpactScore(p) == (2 * p) % 5
PaperKeywords(p) == IF p % 3 = 0 THEN {} ELSE {"graph"}
PaperAuthors(p) == IF p <= 2 THEN {"ann"} ELSE {"bob"}
\* A title is a sequence of characters.
PaperTitle(p) == <<"t">>
PaperDoc(p) ==
  [id |-> p, title |-> PaperTitle(p), authors |-> PaperAuthors(p),
   publishedDate |-> PaperYear(p), citationCount |-> PaperCitationCount(p),
   impactScore |-> PaperImpactScore(p), categories |-> PaperCategories(p),
   keywords |-> PaperKeywords(p)]

\* Citation documents: a citing and a cited paper reference.
\* A citation joins two different papers, in either direction.
CitationDocs ==
  {c \in [citingPaper : PaperIds, citedPaper : PaperIds] : c.citingPaper # c.citedPaper}

\* The Citation collections the model starts from: up to MaxCitations
\* documents (the same citation may be stored more than once), in the
\* store's order, which is by citing and then cited paper.
DocRank(c) == c.citingPaper * (NumPapers + 1) + c.citedPaper
RECURSIVE CollectionsOfLen(_)
CollectionsOfLen(n) ==
  IF n = 0 THEN {<<>>}
  ELSE {Append(sc[1], sc[2]) :
          sc \in {x \in CollectionsOfLen(n - 1) \X CitationDocs :
                    x[1] = <<>> \/ DocRank(x[1][Len(x[1])]) <= DocRank(x[2])}}
CollectionsUpTo(n) == UNION {CollectionsOfLen(k) : k \in 0..n}
CitationCollections == CollectionsUpTo(MaxCitations)

\* ------------------------------------------------ graph-data-structure
EmptyGraph == [nodes |-> <<>>, edges |-> <<>>]
GraphHasNode(g, n) == n \in Range(g.nodes)
GraphAddNode(g, n) ==
  IF GraphHasNode(g, n) THEN g ELSE [g EXCEPT !.nodes = Append(@, n)]
GraphAddEdge(g, u, v) ==
  [GraphAddNode(GraphAddNode(g, u), v) EXCEPT !.edges = Append(@, <<u, v>>)]
GraphNodes(g) == g.nodes
GraphEdges(g) == [i \in 1..Len(g.edges) |->
                    [source |-> g.edges[i][1], target |-> g.edges[i][2]]]
GraphIndegree(g, n) == Cardinality({i \in 1..Len(g.edges) : g.edges[i][2] = n})
GraphOutdegree(g, n) == Cardinality({i \in 1..Len(g.edges) : g.edges[i][1] = n})
\* adjacent(n): one entry per edge out of n, in the order the edges were added.
GraphAdjacent(g, n) ==
  LET out == SelectSeq(g.edges, LAMBDA e : e[1] = n)
  IN [i \in 1..Len(out) |-> out[i][2]]
\* adjacentReverse(n): one entry per edge into n, in the order the edges were
\* added.
GraphAdjacentReverse(g, n) ==
  LET into == SelectSeq(g.edges, LAMBDA e : e[2] = n)
  IN [i \in 1..Len(into) |-> into[i][1]]
GraphHasEdge(g, u, v) == \E i \in 1..Len(g.edges) : g.edges[i] = <<u, v>>

VARIABLES
  storePapers,     \* ids of the documents of the Paper collection
  storeCitations,  \* documents of the Citation collection, in store order
  storeSeminal,    \* ids of the Paper documents whose isSeminal is true
  graph,           \* this.graph
  paperNodes,      \* this.paperNodes
  citationEdges,   \* this.citationEdges
  pc,              \* where each request's handler stands
  call,            \* each request's operation, options and locals
  result           \* what each finished request returned or threw

vars == <<storePapers, storeCitations, storeSeminal, graph, paperNodes, citationEdges,
          pc, call, result>>

engine == <<graph, paperNodes, citationEdges>>
store == <<storePapers, storeCitations, storeSeminal>>

\* --------------------------------------------- buildCitationNetwork
DefaultMaxNodes == 10000

\* No dateRange option: line 17's default.
NoRange == [start |-> 0, end |-> 0]

\* Filters requests send: the defaults, a category allowlist, a category no
\* paper has, and a citation threshold with a node limit.
FilterAll ==
  [categories |-> {}, dateRange |-> NoRange, minCitations |-> 0,
   maxNodes |-> DefaultMaxNodes]
FilterCs == [FilterAll EXCEPT !.categories = {"cs"}]
FilterNone == [FilterAll EXCEPT !.categories = {"math"}]
FilterTop == [FilterAll EXCEPT !.minCitations = 1, !.maxNodes = 1]
Filters == {FilterAll, FilterCs, FilterNone}

\* paperFilter of lines 26-38 applied to one document.
MatchesFilter(p, f) ==
  /\ (f.categories # {} => PaperCategories(p) \cap f.categories # {})
  /\ (f.dateRange # NoRange =>
        f.dateRange.start <= PaperYear(p) /\ PaperYear(p) <= f.dateRange.end)
  /\ (f.minCitations > 0 => PaperCitationCount(p) >= f.minCitations)

\* sort({citationCount: -1}): descending, ties in store order.
RECURSIVE SortByCitationCount(_)
SortByCitationCount(S) ==
  IF S = {} THEN <<>>
  ELSE LET first == CHOOSE p \in S : \A q \in S :
                      \/ PaperCitationCount(p) > PaperCitationCount(q)
                      \/ PaperCitationCount(p) = PaperCitationCount(q) /\ p <= q
       IN <<first>> \o SortByCitationCount(S \ {first})

\* Query.limit(n): the first n documents; a limit of 0 is no limit.
Limit(s, n) == IF n = 0 \/ Len(s) <= n THEN s ELSE SubSeq(s, 1, n)

\* The query with the limit taken before the sort: the first maxNodes
\* matching documents in store order, then sorted.
RECURSIVE StoreOrder(_)
StoreOrder(S) ==
  IF S = {} THEN <<>>
  ELSE LET first == CHOOSE p \in S : \A q \in S : p <= q
       IN <<first>> \o StoreOrder(S \ {first})
FindPapersLimitFirst(f, live) ==
  SortByCitationCount(
    Range(Limit(StoreOrder({p \in live : MatchesFilter(p, f)}), f.maxNodes)))

\* Paper.find(paperFilter).limit(maxNodes).sort({citationCount: -1}): the
\* query sorts before it limits, whatever the order of the two calls.
FindPapers(f, live) ==
  Limit(SortByCitationCount({p \in live : MatchesFilter(p, f)}), f.maxNodes)

\* Citation.find({citingPaper: {$in: ids}, citedPaper: {$in: ids}})
\*   .populate("citingPaper citedPaper"): a reference whose paper document
\* no longer exists is populated as null (0 here).
Null == 0
Populate(ref, live) == IF ref \in live THEN ref ELSE Null
FindCitations(ids, docs, live) ==
  LET hit == SelectSeq(docs, LAMBDA c : c.citingPaper \in ids /\ c.citedPaper \in ids)
  IN [i \in 1..Len(hit) |->
        [citingPaper |-> Populate(hit[i].citingPaper, live),
         citedPaper |-> Populate(hit[i].citedPaper, live)]]

\* Lines 47-60: one node and one paperNodes entry per paper.
RECURSIVE AddNodes(_, _)
AddNodes(e, papers) ==
  IF papers = <<>> THEN e
  ELSE AddNodes([graph |-> GraphAddNode(e.graph, Head(papers)),
                 paperNodes |-> MapSet(e.paperNodes, Head(papers), PaperDoc(Head(papers))),
                 citationEdges |-> e.citationEdges],
                Tail(papers))

\* Line 74: the guard of the edge loop.
EdgeGuard(g, sourceId, targetId) ==
  GraphHasNode(g, sourceId) /\ GraphHasNode(g, targetId)

\* Lines 70-85: the edge loop.  Reading ._id of a null reference throws a
\* TypeError, which ends the loop with the edges added so far.
RECURSIVE AddEdges(_, _)
AddEdges(e, citations) ==
  IF citations = <<>> THEN [engine |-> e, thrown |-> "none"]
  ELSE LET c == Head(citations) IN
       IF c.citingPaper = Null \/ c.citedPaper = Null
       THEN [engine |-> e, thrown |-> "TypeError"]
       ELSE IF EdgeGuard(e.graph, c.citingPaper, c.citedPaper)
       THEN AddEdges([graph |-> GraphAddEdge(e.graph, c.citingPaper, c.citedPaper),
                      paperNodes |-> e.paperNodes,
                      citationEdges |->
                        MapSet(e.citationEdges, <<c.citingPaper, c.citedPaper>>,
                               [source |-> c.citingPaper, target |-> c.citedPaper])],
                     Tail(citations))
       ELSE AddEdges(e, Tail(citations))

\* Lines 87-92: the summary the call returns.
BuildSummary(e) ==
  [status |-> "ok",
   nodes |-> Len(GraphNodes(e.graph)),
   edges |-> Len(GraphEdges(e.graph)),
   papers |-> MapValues(e.paperNodes),
   citations |-> MapValues(e.citationEdges)]

Thrown(err) == [status |-> "error", error |-> err]
NoResult == [status |-> "none"]
NoCall == [op |-> "none"]

\* Requests are numbered in their order of arrival; each slot serves one.
Arrives(r) == pc[r] = "idle" /\ \A q \in Requests : q < r => pc[q] # "idle"

Engine == [graph |-> graph, paperNodes |-> paperNodes, citationEdges |-> citationEdges]

\* The clear without line 22: paperNodes survives the rebuild.
ClearedEngineKeepsPaperNodes(e) ==
  [graph |-> EmptyGraph, paperNodes |-> e.paperNodes, citationEdges |-> <<>>]

\* The clear without line 23: citationEdges survives the rebuild.
ClearedEngineKeepsEdges(e) ==
  [graph |-> EmptyGraph, paperNodes |-> <<>>, citationEdges |-> e.citationEdges]

\* Lines 20-23: the engine after the clear.
ClearedEngine(e) == [graph |-> EmptyGraph, paperNodes |-> <<>>, citationEdges |-> <<>>]

SetEngine(e) ==
  /\ graph' = e.graph
  /\ paperNodes' = e.paperNodes
  /\ citationEdges' = e.citationEdges

\* POST /build up to the first await (line 41).  call[r].before remembers the
\* engine the call found, for the properties that compare with it.
BuildStart(r, f) ==
  /\ Arrives(r)
  /\ SetEngine(ClearedEngine(Engine))
  /\ pc' = [pc EXCEPT ![r] = "await_papers"]
  /\ call' = [call EXCEPT ![r] = [op |-> "build", filter |-> f, papers |-> <<>>,
                                  before |-> Engine]]
  /\ UNCHANGED <<store, result>>

\* The paper query answers: lines 47-67, up to the second await.  A query is
\* answered from the store as it is when the handler resumes.
BuildPapersFound(r) ==
  /\ pc[r] = "await_papers"
  /\ LET papers == FindPapers(call[r].filter, storePapers) IN
       /\ SetEngine(AddNodes(Engine, papers))
       /\ call' = [call EXCEPT ![r].papers = papers]
  /\ pc' = [pc EXCEPT ![r] = "await_citations"]
  /\ UNCHANGED <<store, result>>

\* The citation query answers: lines 70-92.
BuildCitationsFound(r) ==
  /\ pc[r] = "await_citations"
  /\ call[r].op = "build"
  /\ LET citations == FindCitations(Range(call[r].papers), storeCitations, storePapers)
         out == AddEdges(Engine, citations)
     IN /\ SetEngine(out.engine)
        /\ result' = [result EXCEPT ![r] =
                        IF out.thrown = "none" THEN BuildSummary(out.engine)
                        ELSE Thrown(out.thrown)]
  /\ pc' = [pc EXCEPT ![r] = "done"]
  /\ UNCHANGED <<store, call>>

\* Either query rejects: lines 93-96 rethrow.
BuildStoreFails(r) ==
  /\ pc[r] \in {"await_papers", "await_citations"}
  /\ pc' = [pc EXCEPT ![r] = "done"]
  /\ result' = [result EXCEPT ![r] = Thrown("StoreUnavailable")]
  /\ UNCHANGED <<store, engine, call>>

\* ------------------------------------------- calculateNetworkMetrics
\* The guard testing the edges instead of the nodes.
NotBuiltGuardOnEdges(g) == Len(GraphEdges(g)) = 0

\* Line 101: the NotBuilt guard.
NotBuiltGuard(g) == Len(GraphNodes(g)) = 0

\* The edge count taken from the citationEdges table instead of the graph.
CalculateBasicMetricsFromTable(e) ==
  [nodeCount |-> Len(GraphNodes(e.graph)),
   edgeCount |-> Len(e.citationEdges),
   density |-> JsDiv(Len(e.citationEdges),
                     Len(GraphNodes(e.graph)) * (Len(GraphNodes(e.graph)) - 1))]

\* Lines 117-134 of calculateBasicMetrics: the two counts and the density
\* of line 127.
CalculateBasicMetrics(e) ==
  LET nodes == GraphNodes(e.graph)
      edges == GraphEdges(e.graph)
  IN [nodeCount |-> Len(nodes),
      edgeCount |-> Len(edges),
      density |-> JsDiv(Len(edges), Len(nodes) * (Len(nodes) - 1))]

\* ------------------------------------------------- findShortestPaths
MaxPaths == 3        \* line 369: maxPaths
MaxPathNodes == 5    \* line 383: a longer path is not extended

\* Lines 374-393: the loop over the queue of paths.  visited holds the paths
\* that were extended (their join("-") keys).
RECURSIVE PathSearch(_, _, _, _, _)
PathSearch(g, target, queue, paths, visited) ==
  IF queue = <<>> \/ Len(paths) >= MaxPaths THEN paths
  ELSE LET path == Head(queue)
           current == path[Len(path)]
           next == SelectSeq(GraphAdjacent(g, current), LAMBDA n : n \notin Range(path))
       IN IF current = target
          THEN PathSearch(g, target, Tail(queue), Append(paths, path), visited)
          ELSE IF Len(path) > MaxPathNodes \/ path \in visited
          THEN PathSearch(g, target, Tail(queue), paths, visited)
          ELSE PathSearch(g, target,
                          Tail(queue) \o [i \in 1..Len(next) |-> Append(path, next[i])],
                          paths, visited \cup {path})

FindShortestPaths(g, source, target) ==
  PathSearch(g, target, <<<<source>>>>, <<>>, {})

\* ---------------------------------------- calculateBetweennessCentrality
\* The loop of line 315 run over the whole path, its two ends included.
BetweennessCountsWithEnds(g) ==
  LET nodes == Range(GraphNodes(g))
      pairs == {st \in nodes \X nodes : st[1] # st[2]}
      onPath(n, path) == Cardinality({i \in 1..Len(path) : path[i] = n})
      through(n) ==
        [st \in pairs |->
           LET paths == FindShortestPaths(g, st[1], st[2])
           IN SumFn([i \in 1..Len(paths) |-> onPath(n, paths[i])])]
  IN [n \in nodes |-> SumFn(through(n))]

\* Lines 309-321: for each node, the number of times it is an inner node of
\* a path found between two different nodes.
BetweennessCounts(g) ==
  LET nodes == Range(GraphNodes(g))
      pairs == {st \in nodes \X nodes : st[1] # st[2]}
      inner(n, path) == Cardinality({i \in 2..Len(path) - 1 : path[i] = n})
      through(n, found) ==
        [st \in pairs |->
           SumFn([i \in 1..Len(found[st]) |-> inner(n, found[st][i])])]
  \* found: the paths of line 312, searched once for each pair.
  IN CHOOSE out \in
       {[n \in nodes |-> SumFn(through(n, found))] :
          found \in {[st \in pairs |-> FindShortestPaths(g, st[1], st[2])]}} : TRUE

\* Lines 324-329: divided by the largest count when that is positive.
CalculateBetweennessCentrality(g) ==
  LET counts == BetweennessCounts(g)
      maxBetweenness == Max({counts[n] : n \in DOMAIN counts})
  IN [n \in DOMAIN counts |->
        IF maxBetweenness > 0 THEN JsDiv(counts[n], maxBetweenness)
        ELSE JsInt(counts[n])]

\* ----------------------------------------------- calculateAuthorityScore
Iterations == 10        \* line 335
DampingPercent == 85    \* line 335: dampingFactor 0.85
\* The scores are kept in millionths, every quotient rounded down.
Micro == 1000000

\* Lines 348-360: one iteration.
AuthorityStep(g, scores) ==
  LET nodes == Range(GraphNodes(g))
      n == Cardinality(nodes)
      contribution(u) == (DampingPercent * scores[u]) \div (100 * GraphOutdegree(g, u))
      received(v) ==
        SumFn([i \in {j \in 1..Len(g.edges) : g.edges[j][2] = v} |->
                 contribution(g.edges[i][1])])
  IN [v \in nodes |-> ((100 - DampingPercent) * Micro) \div (100 * n) + received(v)]

RECURSIVE AuthorityIterate(_, _, _)
AuthorityIterate(g, scores, iter) ==
  IF iter = 0 THEN scores ELSE AuthorityIterate(g, AuthorityStep(g, scores), iter - 1)

\* Lines 335-366.
CalculateAuthorityScore(g) ==
  LET nodes == Range(GraphNodes(g))
  IN AuthorityIterate(g, [v \in nodes |-> Micro \div Cardinality(nodes)], Iterations)

\* Lines 141-151: the two degree tables.
DegreeCentrality(e) ==
  [inDegree |-> [n \in Range(GraphNodes(e.graph)) |-> GraphIndegree(e.graph, n)],
   outDegree |-> [n \in Range(GraphNodes(e.graph)) |-> GraphOutdegree(e.graph, n)]]

\* Lines 137-160 of calculateCentralityMetrics.
CalculateCentralityMetrics(e) ==
  [inDegree |-> DegreeCentrality(e).inDegree,
   outDegree |-> DegreeCentrality(e).outDegree,
   betweenness |-> CalculateBetweennessCentrality(e.graph),
   authority |-> CalculateAuthorityScore(e.graph)]

\* ------------------------------------------- calculateClusteringMetrics
\* Lines 168-186 for one node: neighbors is adjacent(node), one entry per
\* outgoing edge.
LocalClustering(g, node) ==
  LET neighbors == GraphAdjacent(g, node)
      possibleTriangles == (Len(neighbors) * (Len(neighbors) - 1)) \div 2
      triangles ==
        Cardinality({ij \in (1..Len(neighbors)) \X (1..Len(neighbors)) :
                       /\ ij[1] < ij[2]
                       /\ \/ GraphHasEdge(g, neighbors[ij[1]], neighbors[ij[2]])
                          \/ GraphHasEdge(g, neighbors[ij[2]], neighbors[ij[1]])})
  IN IF Len(neighbors) < 2 THEN JsInt(0) ELSE JsDiv(triangles, possibleTriangles)

\* Lines 163-194: the local coefficients.
CalculateClusteringMetrics(e) ==
  [local |-> [n \in Range(GraphNodes(e.graph)) |-> LocalClustering(e.graph, n)]]

\* ---------------------------------------------- findConnectedComponents
\* The neighbours of line 206 without the reverse adjacency.
ComponentNeighborsForward(g, node) == GraphAdjacent(g, node)

\* Line 206: the nodes node cites, then the nodes that cite it.
ComponentNeighbors(g, node) == GraphAdjacent(g, node) \o GraphAdjacentReverse(g, node)

\* Lines 202-212: dfs(node, component), and its forEach over the neighbours.
RECURSIVE Dfs(_, _, _)
RECURSIVE DfsEach(_, _, _)
Dfs(g, node, st) ==
  DfsEach(g, ComponentNeighbors(g, node),
          [visited |-> st.visited \cup {node}, component |-> Append(st.component, node)])
DfsEach(g, neighbors, st) ==
  IF neighbors = <<>> THEN st
  ELSE DfsEach(g, Tail(neighbors),
               IF Head(neighbors) \notin st.visited THEN Dfs(g, Head(neighbors), st)
               ELSE st)

\* Lines 214-220: one component per node that no earlier component holds.
RECURSIVE CollectComponents(_, _, _, _)
CollectComponents(g, nodes, visited, components) ==
  IF nodes = <<>> THEN components
  ELSE IF Head(nodes) \in visited
  THEN CollectComponents(g, Tail(nodes), visited, components)
  ELSE LET st == Dfs(g, Head(nodes), [visited |-> visited, component |-> <<>>])
       IN CollectComponents(g, Tail(nodes), st.visited, Append(components, st.component))

\* Lines 197-228, on a graph with a node.  The fields of the returned object
\* are evaluated in their order: sizes and largest read the components in
\* the order they were found, then sort() reorders the same array.
FindConnectedComponents(g) ==
  LET components == CollectComponents(g, GraphNodes(g), {}, <<>>)
      sorted == SortDescByKey([i \in 1..Len(components) |->
                                 <<Len(components[i]), components[i]>>])
  IN [count |-> Len(components),
      sizes |-> [i \in 1..Len(components) |-> Len(components[i])],
      largest |-> Max({Len(components[i]) : i \in 1..Len(components)}),
      components |-> [i \in 1..Len(sorted) |-> sorted[i][2]]]

\* ------------------------------------------- calculatePaperSimilarity
\* Lines 400-422: the three overlaps, each over the larger of the two sets.
Overlap(A, B) == JsDiv(Cardinality(A \cap B), Max({Cardinality(A), Cardinality(B)}))
CalculatePaperSimilarity(paper1, paper2) ==
  JsAdd(JsAdd(JsMul(Overlap(paper1.categories, paper2.categories), JsDiv(4, 10)),
              JsMul(Overlap(paper1.keywords, paper2.keywords), JsDiv(3, 10))),
        JsMul(Overlap(paper1.authors, paper2.authors), JsDiv(3, 10)))

\* --------------------------------------------------- detectCommunities
MinCommunitySize == 3   \* line 267
\* Line 257: similarity > 0.3.
Similar(paper1, paper2) ==
  JsGreater(CalculatePaperSimilarity(paper1, paper2), JsDiv(3, 10))

\* Lines 252-264: the neighbours of current, one after the other.
RECURSIVE VisitNeighbors(_, _, _, _)
VisitNeighbors(e, current, neighbors, st) ==
  IF neighbors = <<>> THEN st
  ELSE LET neighbor == Head(neighbors) IN
       IF neighbor \notin st.visited
          /\ Similar(MapGet(e.paperNodes, current), MapGet(e.paperNodes, neighbor))
       THEN VisitNeighbors(e, current, Tail(neighbors),
                           [community |-> Append(st.community, neighbor),
                            queue |-> Append(st.queue, neighbor),
                            visited |-> st.visited \cup {neighbor}])
       ELSE VisitNeighbors(e, current, Tail(neighbors), st)

\* Lines 246-265: the while loop over the queue.
RECURSIVE GrowCommunity(_, _)
GrowCommunity(e, st) ==
  IF st.queue = <<>> THEN st
  ELSE LET current == Head(st.queue) IN
       GrowCommunity(e, VisitNeighbors(e, current, GraphAdjacent(e.graph, current),
                                       [st EXCEPT !.queue = Tail(@)]))

\* Line 267 with a minimum of 2: the mutation of the size test.
KeepsCommunityOfTwo(community) == Len(community) >= MinCommunitySize - 1

\* Line 267: the size test.
KeepsCommunity(community) == Len(community) >= MinCommunitySize

\* The group found from one start node goes to the communities when line
\* 267 keeps it; a group that is dropped is remembered as discarded.
FileGroup(found, community) ==
  IF KeepsCommunity(community)
  THEN [found EXCEPT !.communities = Append(@, community)]
  ELSE [found EXCEPT !.discarded = Append(@, community)]

\* The loop over the nodes with a visited set that remembers only the start
\* nodes: the nodes a group absorbed are free for the next group.
RECURSIVE CollectCommunitiesForgetful(_, _, _, _)
CollectCommunitiesForgetful(e, nodes, visited, found) ==
  IF nodes = <<>> THEN found
  ELSE LET node == Head(nodes) IN
       IF node \in visited THEN CollectCommunitiesForgetful(e, Tail(nodes), visited, found)
       ELSE LET st == GrowCommunity(e, [community |-> <<node>>, queue |-> <<node>>,
                                        visited |-> visited \cup {node}])
            IN CollectCommunitiesForgetful(e, Tail(nodes), visited \cup {node},
                                           FileGroup(found, st.community))

\* Lines 239-271: the loop over the nodes; communities in order of their ids.
RECURSIVE CollectCommunities(_, _, _, _)
CollectCommunities(e, nodes, visited, found) ==
  IF nodes = <<>> THEN found
  ELSE LET node == Head(nodes) IN
       IF node \in visited THEN CollectCommunities(e, Tail(nodes), visited, found)
       ELSE LET st == GrowCommunity(e, [community |-> <<node>>, queue |-> <<node>>,
                                        visited |-> visited \cup {node}])
            IN CollectCommunities(e, Tail(nodes), st.visited,
                                  FileGroup(found, st.community))

\* The groups of one pass: those kept and those discarded.
CommunityGroups(e) ==
  CollectCommunities(e, GraphNodes(e.graph), {},
                     [communities |-> <<>>, discarded |-> <<>>])

\* Lines 231-297: the analysis of each community, sorted by size.
DetectCommunities(e) ==
  LET communities == CommunityGroups(e).communities
      analysis == [i \in 1..Len(communities) |->
                     <<Len(communities[i]),
                       [id |-> i - 1, size |-> Len(communities[i]),
                        members |-> communities[i]]>>]
      sorted == SortDescByKey(analysis)
  IN [count |-> Len(communities),
      communities |-> [i \in 1..Len(sorted) |-> sorted[i][2]]]

\* Lines 100-114.
CalculateNetworkMetrics(e) ==
  IF NotBuiltGuard(e.graph) THEN Thrown("NotBuilt")
  ELSE [status |-> "ok",
        basic |-> CalculateBasicMetrics(e),
        centrality |-> CalculateCentralityMetrics(e),
        clustering |-> CalculateClusteringMetrics(e),
        components |-> FindConnectedComponents(e.graph),
        communities |-> DetectCommunities(e)]

\* GET /metrics: the handler has no await before its result is computed.
MetricsCall(r) ==
  /\ Arrives(r)
  /\ pc' = [pc EXCEPT ![r] = "done"]
  /\ call' = [call EXCEPT ![r] = [op |-> "metrics"]]
  /\ result' = [result EXCEPT ![r] = CalculateNetworkMetrics(Engine)]
  /\ UNCHANGED <<store, engine>>

\* ------------------------------------------------- exportNetworkData
\* The edge list taken from the citationEdges table, one entry per pair.
ExportNetworkDataFromTable(e) ==
  LET nodes == [i \in 1..Len(GraphNodes(e.graph)) |->
                  MapGet(e.paperNodes, GraphNodes(e.graph)[i])]
      edges == MapValues(e.citationEdges)
  IN [status |-> "ok", nodes |-> nodes, edges |-> edges,
      metadata |-> [nodeCount |-> Len(nodes), edgeCount |-> Len(edges)]]

\* Lines 671-690: the node list, the edge list and the metadata.
ExportNetworkData(e) ==
  LET nodes == [i \in 1..Len(GraphNodes(e.graph)) |->
                  MapGet(e.paperNodes, GraphNodes(e.graph)[i])]
      edges == GraphEdges(e.graph)
  IN [status |-> "ok", nodes |-> nodes, edges |-> edges,
      metadata |-> [nodeCount |-> Len(nodes), edgeCount |-> Len(edges)]]

\* The characters a title is made of: the five reserved by XML and a letter.
Reserved == {"&", "<", ">", "\"", "'"}
TitleChars == Reserved \cup {"a"}

\* An XML element is its tag and its attributes, each a name and the value
\* written between the quotes: a sequence of characters, entities ("&quot;")
\* and numbers or ids (their digits).
\* Line 716: title.replace(/"/g, "&quot;").
EscapeQuotes(title) ==
  [i \in 1..Len(title) |-> IF title[i] = "\"" THEN "&quot;" ELSE title[i]]

\* Lines 705-734.
ConvertToGEXF(networkData) ==
  [i \in 1..Len(networkData.nodes) |->
     [tag |-> "node",
      attrs |-> <<<<"id", <<ToString(networkData.nodes[i].id)>>>>,
                  <<"label", EscapeQuotes(networkData.nodes[i].title)>>,
                  <<"citationCount", <<ToString(networkData.nodes[i].citationCount)>>>>,
                  <<"impactScore", <<ToString(networkData.nodes[i].impactScore)>>>>>>]]
  \o [i \in 1..Len(networkData.edges) |->
        [tag |-> "edge",
         attrs |-> <<<<"id", <<ToString(i - 1)>>>>,
                     <<"source", <<ToString(networkData.edges[i].source)>>>>,
                     <<"target", <<ToString(networkData.edges[i].target)>>>>>>]]

\* Lines 737-757.
ConvertToGraphML(networkData) ==
  [i \in 1..Len(networkData.nodes) |->
     [tag |-> "node", attrs |-> <<<<"id", <<ToString(networkData.nodes[i].id)>>>>>>]]
  \o [i \in 1..Len(networkData.edges) |->
        [tag |-> "edge",
         attrs |-> <<<<"id", <<"e", ToString(i - 1)>>>>,
                     <<"source", <<ToString(networkData.edges[i].source)>>>>,
                     <<"target", <<ToString(networkData.edges[i].target)>>>>>>]]

\* Lines 692-701: the switch on the format.
ExportNetworkDataAs(e, format) ==
  IF format = "gexf"
  THEN [status |-> "ok", format |-> format, xml |-> ConvertToGEXF(ExportNetworkData(e))]
  ELSE IF format = "graphml"
  THEN [status |-> "ok", format |-> format, xml |-> ConvertToGraphML(ExportNetworkData(e))]
  ELSE ExportNetworkData(e)

\* GET /export?format=...
ExportFormatCall(r, format) ==
  /\ Arrives(r)
  /\ pc' = [pc EXCEPT ![r] = "done"]
  /\ call' = [call EXCEPT ![r] = [op |-> "export", format |-> format]]
  /\ result' = [result EXCEPT ![r] = ExportNetworkDataAs(Engine, format)]
  /\ UNCHANGED <<store, engine>>

\* GET /export.
ExportCall(r) ==
  /\ Arrives(r)
  /\ pc' = [pc EXCEPT ![r] = "done"]
  /\ call' = [call EXCEPT ![r] = [op |-> "export"]]
  /\ result' = [result EXCEPT ![r] = ExportNetworkData(Engine)]
  /\ UNCHANGED <<store, engine>>

\* ---------------------------------------------- identifySeminalPapers
\* Line 485's defaults, and options a request passes.
DefaultSeminalOptions == [minCitations |-> 50, minAge |-> 2, topN |-> 50]
SeminalOptions ==
  {DefaultSeminalOptions}
    \cup [minCitations : {0, 1}, minAge : {0, 2}, topN : {-1, 1, 2}]

\* Array.prototype.slice(0, n): a negative n counts from the end.
JsSlice(s, n) ==
  IF n >= 0 THEN SubSeq(s, 1, IF n < Len(s) THEN n ELSE Len(s))
  ELSE SubSeq(s, 1, IF Len(s) + n > 0 THEN Len(s) + n ELSE 0)

\* Lines 499-509, ten times the score in millionths:
\* 3 citationCount + 2 impactScore + 2 inDegree + 200 authority
\* + 100 betweenness.
SeminalScore(paper, centrality) ==
  LET b == centrality.betweenness[paper.id]
  IN (3 * paper.citationCount + 2 * paper.impactScore
        + 2 * centrality.inDegree[paper.id]) * Micro
     + 200 * centrality.authority[paper.id]
     + 100 * ((b.n * Micro) \div b.d)

\* Line 498 with the age left out of the test.
QualifiesOnCitationsOnly(paper, o) == paper.citationCount >= o.minCitations

\* Lines 496-498: the candidate test.
Qualifies(paper, o) ==
  /\ paper.citationCount >= o.minCitations
  /\ CurrentYear - paper.publishedDate >= o.minAge

\* Lines 493-524 with the metrics of line 491: the candidates in node
\* order, then the ranking.
RankCandidates(e, o, metrics) ==
  LET nodes == SelectSeq(GraphNodes(e.graph),
                         LAMBDA n : Qualifies(MapGet(e.paperNodes, n), o))
      seminalCandidates ==
        [i \in 1..Len(nodes) |->
           LET paper == MapGet(e.paperNodes, nodes[i])
               score == SeminalScore(paper, metrics.centrality)
           IN <<score, [paper |-> paper, seminalScore |-> score]>>]
      ranked(sorted) == [i \in 1..Len(sorted) |-> sorted[i][2]]
  \* const seminalPapers = ...sort(...): sorted once, then sliced.
  IN CHOOSE out \in
       {[status |-> "ok", candidates |-> ranked(sorted),
         papers |-> JsSlice(ranked(sorted), o.topN),
         \* the nodes line 494 walks, and the nodes the metrics of line 491
         \* have an inDegree, an authority and a betweenness for
         examined |-> GraphNodes(e.graph),
         measured |-> (DOMAIN metrics.centrality.inDegree)
                        \cap (DOMAIN metrics.centrality.authority)
                        \cap (DOMAIN metrics.centrality.betweenness)] :
          sorted \in {SortDescByKey(seminalCandidates)}} : TRUE

\* Lines 491-524 with the metrics taken after another build's clear.
IdentifySeminalPapersOnCleared(e, o) ==
  CHOOSE out \in
    {IF metrics.status = "error" THEN metrics ELSE RankCandidates(e, o, metrics) :
       metrics \in {CalculateNetworkMetrics(ClearedEngine(e))}} : TRUE

\* Lines 491-524.
IdentifySeminalPapers(e, o) ==
  \* const metrics = await this.calculateNetworkMetrics(): computed once.
  CHOOSE out \in
    {IF metrics.status = "error" THEN metrics ELSE RankCandidates(e, o, metrics) :
       metrics \in {CalculateNetworkMetrics(e)}} : TRUE

\* The ids of every candidate instead of those of the returned papers.
SeminalPaperIdsOfCandidates(out) ==
  {out.candidates[i].paper.id : i \in 1..Len(out.candidates)}

\* Line 527: the ids the update names.
SeminalPaperIds(out) == {out.papers[i].paper.id : i \in 1..Len(out.papers)}

\* The update writing the flag of every document: true for the matched
\* ones, false for the others.
UpdateManyClearingOthers(st, ids) ==
  [papers |-> st.papers, citations |-> st.citations, seminal |-> ids \cap st.papers]

\* The update replacing the matched documents: their other fields are lost.
UpdateManyReplacing(st, ids) ==
  [papers |-> st.papers \ ids, citations |-> st.citations,
   seminal |-> st.seminal \cup (ids \cap st.papers)]

\* Line 528: Paper.updateMany({_id: {$in: ids}}, {isSeminal: true}).
UpdateMany(st, ids) ==
  [papers |-> st.papers, citations |-> st.citations,
   seminal |-> st.seminal \cup (ids \cap st.papers)]

\* Lines 491-528 on engine e, from the metrics to the await of the update.
\* call[r].writes lists the id sets of the updates the call has issued.
SeminalRank(r, c, e) ==
  \E out \in {IdentifySeminalPapers(e, c.options)} :
    IF out.status = "error"
    THEN /\ pc' = [pc EXCEPT ![r] = "done"]
         /\ call' = [call EXCEPT ![r] = c]
         /\ result' = [result EXCEPT ![r] = out]
    ELSE /\ pc' = [pc EXCEPT ![r] = "await_write"]
         /\ call' = [call EXCEPT ![r] =
                       [c EXCEPT !.ranked = out.papers,
                                 !.examined = out.examined,
                                 !.measured = out.measured,
                                 !.writes = Append(@, SeminalPaperIds(out))]]
         /\ UNCHANGED result

\* GET /seminal up to its first await: the auto-build's paper query (line
\* 488) when the graph has no node, the update (line 528) otherwise.
SeminalStart(r, o) ==
  /\ Arrives(r)
  /\ LET c == [op |-> "seminal", options |-> o, filter |-> FilterAll,
               papers |-> <<>>, before |-> Engine, built |-> NoResult,
               ranked |-> <<>>, examined |-> <<>>, measured |-> {}, writes |-> <<>>]
     IN IF NotBuiltGuard(graph)
        THEN /\ SetEngine(ClearedEngine(Engine))
             /\ pc' = [pc EXCEPT ![r] = "await_papers"]
             /\ call' = [call EXCEPT ![r] = c]
             /\ UNCHANGED result
        ELSE /\ SeminalRank(r, c, Engine)
             /\ UNCHANGED engine
  /\ UNCHANGED store

\* The auto-build's citation query answers: lines 70-92, then 491-528.
\* call[r].built is what the auto-build returned.
SeminalBuilt(r) ==
  /\ pc[r] = "await_citations"
  /\ call[r].op = "seminal"
  /\ LET citations == FindCitations(Range(call[r].papers), storeCitations, storePapers)
         out == AddEdges(Engine, citations)
     IN /\ SetEngine(out.engine)
        /\ IF out.thrown = "none"
           THEN SeminalRank(r, [call[r] EXCEPT !.built = BuildSummary(out.engine)],
                            out.engine)
           ELSE /\ pc' = [pc EXCEPT ![r] = "done"]
                /\ result' = [result EXCEPT ![r] = Thrown(out.thrown)]
                /\ UNCHANGED call
  /\ UNCHANGED store

\* The update answers: line 530 returns the ranked papers.
SeminalWritten(r) ==
  /\ pc[r] = "await_write"
  /\ LET st == UpdateMany([papers |-> storePapers, citations |-> storeCitations,
                           seminal |-> storeSeminal],
                          call[r].writes[Len(call[r].writes)])
     IN /\ storePapers' = st.papers
        /\ storeCitations' = st.citations
        /\ storeSeminal' = st.seminal
  /\ pc' = [pc EXCEPT ![r] = "done"]
  /\ result' = [result EXCEPT ![r] = [status |-> "ok", papers |-> call[r].ranked]]
  /\ UNCHANGED <<engine, call>>

\* The update rejects.
SeminalWriteFails(r) ==
  /\ pc[r] = "await_write"
  /\ pc' = [pc EXCEPT ![r] = "done"]
  /\ result' = [result EXCEPT ![r] = Thrown("StoreUnavailable")]
  /\ UNCHANGED <<store, engine, call>>

\* --------------------------------------------- analyzeCitationPatterns
\* Line 574: the lags that enter the sample.
RetainsLag(lag) == lag >= 0

\* Lines 550-586, over the entries of the citationEdges table.
AnalyzeTemporalPatterns(e) ==
  LET edges == MapValues(e.citationEdges)
      year(n) == MapGet(e.paperNodes, n).publishedDate
      lag(c) == year(c.source) - year(c.target)
      years == {year(edges[i].source) : i \in 1..Len(edges)}
                 \cup {year(edges[i].target) : i \in 1..Len(edges)}
      lagged == SelectSeq(edges, LAMBDA c : RetainsLag(lag(c)))
      citationLags == [i \in 1..Len(lagged) |-> lag(lagged[i])]
  IN [yearlyData |->
        [y \in years |->
           [citing |-> Cardinality({i \in 1..Len(edges) : year(edges[i].source) = y}),
            cited |-> Cardinality({i \in 1..Len(edges) : year(edges[i].target) = y})]],
      avgCitationLag |-> JsDiv(SumFn(citationLags), Len(citationLags)),
      \* calculateDistribution, lines 661-667.
      citationLagDistribution |->
        [v \in Range(citationLags) |->
           Cardinality({i \in 1..Len(citationLags) : citationLags[i] = v})]]

\* Line 606: the test on one pair of categories.
Differs(sourceCategory, targetCategory, sourcePaper, targetPaper) ==
  sourceCategory # targetCategory

\* Lines 589-623, over the entries of the citationEdges table.  The
\* crossDisciplinary list is given as the set of its entries: the category
\* lists hold no category twice and the table no pair twice, so no entry
\* occurs twice.
AnalyzeCategoricalPatterns(e) ==
  LET edges == MapValues(e.citationEdges)
      paper(n) == MapGet(e.paperNodes, n)
      pairs(i) == paper(edges[i].source).categories \X paper(edges[i].target).categories
      all == UNION {pairs(i) : i \in 1..Len(edges)}
      crossDisciplinary ==
        UNION {{[from |-> st[1], to |-> st[2],
                 sourcePaper |-> edges[i].source, targetPaper |-> edges[i].target] :
                  st \in {x \in pairs(i) : Differs(x[1], x[2], paper(edges[i].source),
                                                   paper(edges[i].target))}} :
               i \in 1..Len(edges)}
  IN [categoryMatrix |->
        [st \in all |-> Cardinality({i \in 1..Len(edges) : st \in pairs(i)})],
      crossDisciplinary |-> crossDisciplinary,
      crossDisciplinaryCount |-> Cardinality(crossDisciplinary)]

\* Lines 539-546: the temporal and the categorical report.
AnalyzeCitationPatterns(e) ==
  [status |-> "ok",
   temporal |-> AnalyzeTemporalPatterns(e),
   categorical |-> AnalyzeCategoricalPatterns(e)]

\* GET /patterns up to its first await, or to its end when the graph has a
\* node (line 535).
PatternsStart(r) ==
  /\ Arrives(r)
  /\ LET c == [op |-> "patterns", filter |-> FilterAll, papers |-> <<>>,
               before |-> Engine]
     IN /\ call' = [call EXCEPT ![r] = c]
        /\ IF NotBuiltGuard(graph)
           THEN /\ SetEngine(ClearedEngine(Engine))
                /\ pc' = [pc EXCEPT ![r] = "await_papers"]
                /\ UNCHANGED result
           ELSE /\ pc' = [pc EXCEPT ![r] = "done"]
                /\ result' = [result EXCEPT ![r] = AnalyzeCitationPatterns(Engine)]
                /\ UNCHANGED engine
  /\ UNCHANGED store

\* The auto-build's citation query answers: lines 70-92, then 539-546.
PatternsBuilt(r) ==
  /\ pc[r] = "await_citations"
  /\ call[r].op = "patterns"
  /\ LET citations == FindCitations(Range(call[r].papers), storeCitations, storePapers)
         out == AddEdges(Engine, citations)
     IN /\ SetEngine(out.engine)
        /\ result' = [result EXCEPT ![r] =
                        IF out.thrown = "none" THEN AnalyzeCitationPatterns(out.engine)
                        ELSE Thrown(out.thrown)]
  /\ pc' = [pc EXCEPT ![r] = "done"]
  /\ UNCHANGED <<store, call>>

\* ------------------------------------------------ DELETE /papers/:id
\* routes/papers.js line 172: the paper document goes first.
DeleteStart(r, p) ==
  /\ Arrives(r)
  /\ call' = [call EXCEPT ![r] = [op |-> "delete", paper |-> p]]
  /\ IF p \in storePapers
     THEN /\ storePapers' = storePapers \ {p}
          /\ storeSeminal' = storeSeminal \ {p}
          /\ pc' = [pc EXCEPT ![r] = "await_cleanup"]
          /\ UNCHANGED result
     ELSE /\ pc' = [pc EXCEPT ![r] = "done"]
          /\ result' = [result EXCEPT ![r] = Thrown("NotFound")]
          /\ UNCHANGED <<storePapers, storeSeminal>>
  /\ UNCHANGED <<storeCitations, engine>>

\* routes/papers.js lines 179-183: then the citations that name it.
DeleteCleanup(r) ==
  /\ pc[r] = "await_cleanup"
  /\ storeCitations' =
       SelectSeq(storeCitations,
                 LAMBDA c : c.citingPaper # call[r].paper /\ c.citedPaper # call[r].paper)
  /\ pc' = [pc EXCEPT ![r] = "done"]
  /\ result' = [result EXCEPT ![r] = [status |-> "ok"]]
  /\ UNCHANGED <<storePapers, storeSeminal, engine, call>>

Init ==
  /\ storePapers = PaperIds
  /\ storeCitations \in CitationCollections
  /\ storeSeminal = {}
  /\ graph = EmptyGraph
  /\ paperNodes = <<>>
  /\ citationEdges = <<>>
  /\ pc = [r \in Requests |-> "idle"]
  /\ call = [r \in Requests |-> NoCall]
  /\ result = [r \in Requests |-> NoResult]

Next ==
  \/ \E r \in Requests, f \in Filters : BuildStart(r, f)
  \/ \E r \in Requests : BuildPapersFound(r)
  \/ \E r \in Requests : BuildCitationsFound(r)
  \/ \E r \in Requests : BuildStoreFails(r)
  \/ \E r \in Requests : MetricsCall(r)
  \/ \E r \in Requests : ExportCall(r)
  \/ \E r \in Requests, p \in PaperIds : DeleteStart(r, p)
  \/ \E r \in Requests : DeleteCleanup(r)

Spec == Init /\ [][Next]_vars

\* ------------------------------- a build, then a reading of its graph
\* Citation collections of up to MaxAnalysisCitations documents.
MaxAnalysisCitations == 4
AnalysisCollections == CollectionsUpTo(MaxAnalysisCitations)

\* Request r comes after the requests before it have been answered.
Sequential(r) == \A q \in Requests : q < r => pc[q] = "done"

\* findShortestPaths(source, target) called on the engine.
ShortestPathsCall(r, source, target) ==
  /\ Arrives(r)
  /\ GraphHasNode(graph, source) /\ GraphHasNode(graph, target)
  /\ source # target
  /\ pc' = [pc EXCEPT ![r] = "done"]
  /\ call' = [call EXCEPT ![r] = [op |-> "paths", source |-> source, target |-> target]]
  /\ result' = [result EXCEPT ![r] =
                  [status |-> "ok", paths |-> FindShortestPaths(graph, source, target)]]
  /\ UNCHANGED <<store, engine>>

AnalysisInit ==
  /\ storePapers = PaperIds
  /\ storeCitations \in AnalysisCollections
  /\ storeSeminal = {}
  /\ graph = EmptyGraph
  /\ paperNodes = <<>>
  /\ citationEdges = <<>>
  /\ pc = [r \in Requests |-> "idle"]
  /\ call = [r \in Requests |-> NoCall]
  /\ result = [r \in Requests |-> NoResult]

AnalysisNext ==
  \/ \E f \in {FilterAll, FilterTop} : BuildStart(1, f)
  \/ BuildPapersFound(1)
  \/ BuildCitationsFound(1)
  \/ Sequential(2) /\ MetricsCall(2)
  \/ Sequential(2) /\ ExportCall(2)
  \/ \E s \in PaperIds, t \in PaperIds : Sequential(2) /\ ShortestPathsCall(2, s, t)

AnalysisSpec == AnalysisInit /\ [][AnalysisNext]_vars

\* --------------------- a build, then a call that builds when it must
\* The Paper collection may be empty.
SeminalInit ==
  /\ \/ storePapers = PaperIds /\ storeCitations \in CitationCollections
     \/ storePapers = {} /\ storeCitations = <<>>
  /\ storeSeminal = {}
  /\ graph = EmptyGraph
  /\ paperNodes = <<>>
  /\ citationEdges = <<>>
  /\ pc = [r \in Requests |-> "idle"]
  /\ call = [r \in Requests |-> NoCall]
  /\ result = [r \in Requests |-> NoResult]

SeminalNext ==
  \/ \E f \in Filters : BuildStart(1, f)
  \/ \E r \in Requests : BuildPapersFound(r)
  \/ BuildCitationsFound(1)
  \/ \E r \in Requests : BuildStoreFails(r)
  \/ \E o \in SeminalOptions : Sequential(2) /\ SeminalStart(2, o)
  \/ SeminalBuilt(2)
  \/ SeminalWritten(2)
  \/ SeminalWriteFails(2)
  \/ Sequential(2) /\ PatternsStart(2)
  \/ PatternsBuilt(2)
  \/ Sequential(2) /\ MetricsCall(2)
  \/ Sequential(2) /\ ExportCall(2)

SeminalSpec == SeminalInit /\ [][SeminalNext]_vars

\* --------------------------------- exports of a graph with any title
MaxTitleLen == 3
Titles == SeqsUpTo(TitleChars, MaxTitleLen) \ {<<>>}

\* The engine after a build on a store of papers 1 and 2 and the citation
\* 1 -> 2, the title of paper 1 being any title.
XmlInit ==
  /\ storePapers = {1, 2}
  /\ storeCitations = <<[citingPaper |-> 1, citedPaper |-> 2]>>
  /\ storeSeminal = {}
  /\ \E title \in Titles :
       LET e == AddEdges(AddNodes([graph |-> EmptyGraph, paperNodes |-> <<>>,
                                   citationEdges |-> <<>>],
                                  FindPapers(FilterAll, storePapers)),
                         FindCitations(storePapers, storeCitations, storePapers)).engine
       IN /\ graph = e.graph
          /\ paperNodes = MapSet(e.paperNodes, 1, [PaperDoc(1) EXCEPT !.title = title])
          /\ citationEdges = e.citationEdges
  /\ pc = [r \in Requests |-> "idle"]
  /\ call = [r \in Requests |-> NoCall]
  /\ result = [r \in Requests |-> NoResult]

XmlNext ==
  \E r \in Requests, format \in {"json", "gexf", "graphml"} : ExportFormatCall(r, format)

XmlSpec == XmlInit /\ [][XmlNext]_vars

\* ------------------------------------- one build, any options
\* The options a caller may pass to buildCitationNetwork.
DateRanges ==
  {NoRange, [start |-> CurrentYear - 2, end |-> CurrentYear - 1],
   [start |-> CurrentYear - 1, end |-> CurrentYear]}
BuildOptions ==
  [categories : {{}, {"cs"}, {"bio", "math"}}, dateRange : DateRanges,
   minCitations : 0..2, maxNodes : {0, 1, 2, DefaultMaxNodes}]

BuildNext ==
  \/ \E f \in BuildOptions : BuildStart(1, f)
  \/ BuildPapersFound(1)
  \/ BuildCitationsFound(1)
  \/ BuildStoreFails(1)

BuildSpec == Init /\ [][BuildNext]_vars

\* ------------------------ builds and seminal calls that may overlap
\* The options of a seminal call (routes/network.js lines 96-100): the first
\* request asks for the two best papers cited at least once, the second for
\* the best paper cited at least twice; both for papers a year old or more.
OverlapOptions ==
  <<[minCitations |-> 1, minAge |-> 1, topN |-> 2],
    [minCitations |-> 2, minAge |-> 1, topN |-> 1]>>

OverlapNext ==
  \/ \E r \in Requests : BuildStart(r, FilterCs)
  \/ \E r \in Requests : BuildPapersFound(r)
  \/ \E r \in Requests : BuildCitationsFound(r)
  \/ \E r \in Requests : SeminalStart(r, OverlapOptions[r])
  \/ \E r \in Requests : SeminalBuilt(r)
  \/ \E r \in Requests : SeminalWritten(r)

OverlapSpec == Init /\ [][OverlapNext]_vars

\* -------------------------- communities of graphs of eight papers
\* Enough papers for two communities and a group of two.
CommunityPapers == 1..(2 * MinCommunitySize + 2)

\* The citations the store may hold, in store order: between similar papers
\* (1->3, 2->4, 4->5, 4->6, 5->7, 7->1, 7->8) and between papers that are
\* not (2->5).
CommunityCitations ==
  <<[citingPaper |-> 1, citedPaper |-> 3], [citingPaper |-> 2, citedPaper |-> 4],
    [citingPaper |-> 2, citedPaper |-> 5], [citingPaper |-> 4, citedPaper |-> 5],
    [citingPaper |-> 4, citedPaper |-> 6], [citingPaper |-> 5, citedPaper |-> 7],
    [citingPaper |-> 7, citedPaper |-> 1], [citingPaper |-> 7, citedPaper |-> 8]>>

RECURSIVE Pick(_, _)
\* The documents of CommunityCitations at the positions I, from position k on.
Pick(I, k) ==
  IF k > Len(CommunityCitations) THEN <<>>
  ELSE (IF k \in I THEN <<CommunityCitations[k]>> ELSE <<>>) \o Pick(I, k + 1)
CommunityCollections == {Pick(I, 1) : I \in SUBSET (1..Len(CommunityCitations))}

\* detectCommunities called on the engine.  call[r].discarded lists the
\* groups the pass dropped at line 267.
CommunitiesCall(r) ==
  /\ Arrives(r)
  /\ pc' = [pc EXCEPT ![r] = "done"]
  /\ call' = [call EXCEPT ![r] = [op |-> "communities",
                                  discarded |-> CommunityGroups(Engine).discarded]]
  /\ result' = [result EXCEPT ![r] =
                  [status |-> "ok", communities |-> DetectCommunities(Engine)]]
  /\ UNCHANGED <<store, engine>>

CommunityInit ==
  /\ storePapers = CommunityPapers
  /\ storeCitations \in CommunityCollections
  /\ storeSeminal = {}
  /\ graph = EmptyGraph
  /\ paperNodes = <<>>
  /\ citationEdges = <<>>
  /\ pc = [r \in Requests |-> "idle"]
  /\ call = [r \in Requests |-> NoCall]
  /\ result = [r \in Requests |-> NoResult]

CommunityNext ==
  \/ BuildStart(1, FilterAll)
  \/ BuildPapersFound(1)
  \/ BuildCitationsFound(1)
  \/ Sequential(2) /\ CommunitiesCall(2)

CommunitySpec == CommunityInit /\ [][CommunityNext]_vars

\* --------------------------- patterns of a graph with any categories
\* The Citation collections between papers 1 and 2.
PairCollections ==
  {c \in CitationCollections : \A i \in 1..Len(c) : {c[i].citingPaper, c[i].citedPaper} = {1, 2}}

\* The documents of paper p with any categories.
CategoryDocs(p) == {[PaperDoc(p) EXCEPT !.categories = c] : c \in SUBSET {"cs", "bio"}}

\* The engine after a build on a store of papers 1 and 2 and citations
\* between them.
PatternsInit ==
  /\ storePapers = {1, 2}
  /\ storeCitations \in PairCollections
  /\ storeSeminal = {}
  /\ \E d1 \in CategoryDocs(1), d2 \in CategoryDocs(2) :
       LET e == AddEdges(AddNodes([graph |-> EmptyGraph, paperNodes |-> <<>>,
                                   citationEdges |-> <<>>],
                                  FindPapers(FilterAll, storePapers)),
                         FindCitations(storePapers, storeCitations, storePapers)).engine
       IN /\ graph = e.graph
          /\ paperNodes = MapSet(MapSet(e.paperNodes, 1, d1), 2, d2)
          /\ citationEdges = e.citationEdges
  /\ pc = [r \in Requests |-> "idle"]
  /\ call = [r \in Requests |-> NoCall]
  /\ result = [r \in Requests |-> NoResult]

PatternsNext == \E r \in Requests : PatternsStart(r)

PatternsSpec == PatternsInit /\ [][PatternsNext]_vars

\* ------------------------------- the similarity of any two papers
\* Paper documents with any categories, keywords and author names; each of
\* the three arrays may be empty (Paper.js lines 8-14, 42, 43).
AttributeDocs(p) ==
  {[PaperDoc(p) EXCEPT !.categories = c, !.keywords = k, !.authors = a] :
     c \in SUBSET {"cs", "bio", "math"}, k \in SUBSET {"graph"}, a \in SUBSET {"ann"}}

\* calculatePaperSimilarity called on two papers of the engine.
SimilarityCall(r, p1, p2) ==
  /\ Arrives(r)
  /\ MapHas(paperNodes, p1) /\ MapHas(paperNodes, p2)
  /\ p1 # p2
  /\ pc' = [pc EXCEPT ![r] = "done"]
  /\ call' = [call EXCEPT ![r] = [op |-> "similarity", paper1 |-> p1, paper2 |-> p2]]
  /\ result' = [result EXCEPT ![r] =
                  [status |-> "ok",
                   similarity |-> CalculatePaperSimilarity(MapGet(paperNodes, p1),
                                                           MapGet(paperNodes, p2))]]
  /\ UNCHANGED <<store, engine>>

\* The engine after a build on a store of papers 1 and 2 without citations.
SimilarityInit ==
  /\ storePapers = {1, 2}
  /\ storeCitations = <<>>
  /\ storeSeminal = {}
  /\ graph = GraphAddNode(GraphAddNode(EmptyGraph, 2), 1)
  /\ \E d1 \in AttributeDocs(1), d2 \in AttributeDocs(2) :
       paperNodes = <<<<2, d2>>, <<1, d1>>>>
  /\ citationEdges = <<>>
  /\ pc = [r \in Requests |-> "idle"]
  /\ call = [r \in Requests |-> NoCall]
  /\ result = [r \in Requests |-> NoResult]

SimilarityNext ==
  \E r \in Requests, p1 \in PaperIds, p2 \in PaperIds : SimilarityCall(r, p1, p2)

SimilaritySpec == SimilarityInit /\ [][SimilarityNext]_vars

\* ================================================================ claims
Done(r, op) == pc[r] = "done" /\ call[r].op = op
Suspended(b) == pc[b] \in {"await_papers", "await_citations"}
OthersIdle(r) == \A q \in Requests \ {r} : pc[q] = "idle"
\* No DELETE has touched the store.
StoreIntact == storePapers = PaperIds

\* What buildCitationNetwork(f) leaves in the engine and returns when no
\* other request runs during it and both queries answer.
BuildAlone(f) ==
  LET papers == FindPapers(f, storePapers)
      withNodes == AddNodes(ClearedEngine(Engine), papers)
  IN AddEdges(withNodes, FindCitations(Range(papers), storeCitations, storePapers))

PairCount(seq, s, t) == Cardinality({i \in 1..Len(seq) : seq[i] = <<s, t>>})

\* C1: a build that overlaps another build returns the summary it returns
\* when it runs alone, i.e. the papers and citations of its own filter.
C1_BuildReturnsOwnFilter ==
  \A r \in Requests :
    (Done(r, "build") /\ result[r].status = "ok" /\ StoreIntact)
      => result[r] = BuildSummary(BuildAlone(call[r].filter).engine)

\* C2: a metrics or export call made while a build is suspended at a store
\* query returns what it returns on the engine as that build found it, or on
\* the engine as that build leaves it, never anything in between.
ObserveWith(op, e) ==
  IF op = "metrics" THEN CalculateNetworkMetrics(e) ELSE ExportNetworkData(e)
C2_NoMidBuildRead ==
  [][\A r \in Requests, b \in Requests :
       ( /\ Arrives(r) /\ pc'[r] = "done" /\ call'[r].op \in {"metrics", "export"}
         /\ Suspended(b) /\ StoreIntact )
       => result'[r] \in {ObserveWith(call'[r].op, call[b].before),
                          ObserveWith(call'[r].op, BuildAlone(call[b].filter).engine)}
    ]_vars

\* C3: after a build has failed on a store query, the engine holds no node
\* of a store citation between two of its nodes without that citation's edge.
PartialGraph ==
  \E i \in 1..Len(storeCitations) :
    /\ GraphHasNode(graph, storeCitations[i].citingPaper)
    /\ GraphHasNode(graph, storeCitations[i].citedPaper)
    /\ PairCount(graph.edges, storeCitations[i].citingPaper,
                 storeCitations[i].citedPaper) = 0
C3_FailedBuildLeavesNoPartialGraph ==
  \A r \in Requests :
    (Done(r, "build") /\ result[r] = Thrown("StoreUnavailable") /\ OthersIdle(r))
      => ~PartialGraph

\* C4: in every state, suspended builds included, every edge of the graph and
\* every entry of citationEdges has its source and its target among the
\* graph's nodes.
C4_EdgeEndpointsAreNodes ==
  /\ \A i \in 1..Len(GraphEdges(graph)) :
       /\ GraphHasNode(graph, GraphEdges(graph)[i].source)
       /\ GraphHasNode(graph, GraphEdges(graph)[i].target)
  /\ \A i \in 1..Len(citationEdges) :
       /\ GraphHasNode(graph, citationEdges[i][1][1])
       /\ GraphHasNode(graph, citationEdges[i][1][2])
       /\ GraphHasNode(graph, citationEdges[i][2].source)
       /\ GraphHasNode(graph, citationEdges[i][2].target)
\* A build is suspended at its citation query while the graph holds an edge.
C4_Witness ==
  \E b \in Requests :
    pc[b] = "await_citations" /\ Len(GraphEdges(graph)) >= 1 /\ Len(citationEdges) >= 1

\* C5: calculateNetworkMetrics throws NotBuilt, and returns no metrics, when
\* the graph has no node, and returns metrics when it has one.
C5_NotBuiltIffNoNodes ==
  [][\A r \in Requests :
       (Arrives(r) /\ pc'[r] = "done" /\ call'[r].op = "metrics")
       => IF Len(GraphNodes(graph)) = 0
          THEN result'[r] = Thrown("NotBuilt")
          ELSE result'[r].status = "ok" /\ result'[r].basic.nodeCount >= 1
    ]_vars
\* A build whose filter matched nothing has returned, and metrics then threw.
C5_Witness ==
  /\ Done(1, "build") /\ result[1].status = "ok" /\ result[1].nodes = 0
  /\ Done(2, "metrics") /\ result[2] = Thrown("NotBuilt")

\* C6: a build whose filter matches no paper returns 0 nodes, 0 edges and
\* empty paper and citation lists, and throws nothing of its own.
C6_NoMatchGivesEmptyGraph ==
  \A r \in Requests :
    (Done(r, "build") /\ FindPapers(call[r].filter, PaperIds) = <<>>)
      => /\ result[r].status = "error" => result[r] = Thrown("StoreUnavailable")
         /\ result[r].status = "ok" =>
              /\ result[r].nodes = 0 /\ result[r].edges = 0
              /\ result[r].papers = <<>> /\ result[r].citations = <<>>

\* C7: an export asked of a graph without nodes throws NotBuilt: it never
\* returns a result that lists no node.
C7_ExportOfEmptyGraphIsNotBuilt ==
  \A r \in Requests :
    Done(r, "export") =>
      ~(result[r].status = "ok" /\ result[r].metadata.nodeCount = 0)

\* C8: a citation record whose citing or cited reference is null is skipped:
\* no build ends in the TypeError of reading it.
C8_MalformedRecordIsSkipped ==
  \A r \in Requests : Done(r, "build") => result[r] # Thrown("TypeError")

\* C9: k >= 2 stored citations of the same selected pair give k citations in
\* the build result and k edges between the pair in the graph.
C9_ParallelCitationsKept ==
  \A r \in Requests :
    (Done(r, "build") /\ result[r].status = "ok" /\ OthersIdle(r) /\ StoreIntact)
      => \A i \in 1..Len(storeCitations) :
           LET s == storeCitations[i].citingPaper
               t == storeCitations[i].citedPaper
               k == Cardinality({j \in 1..Len(storeCitations) : storeCitations[j] = storeCitations[i]})
           IN (k >= 2 /\ {s, t} \subseteq Range(call[r].papers))
                => /\ Cardinality({j \in 1..Len(result[r].citations) :
                          result[r].citations[j] = [source |-> s, target |-> t]}) = k
                   /\ PairCount(graph.edges, s, t) = k
                   /\ result[r].edges >= k

\* C10: the in-degrees and the out-degrees of the graph's nodes both add up
\* to its edge count, in the engine and in every metrics report.
C10_DegreeSumsEqualEdgeCount ==
  /\ LET deg == DegreeCentrality(Engine) IN
       /\ SumFn(deg.inDegree) = Len(GraphEdges(graph))
       /\ SumFn(deg.outDegree) = Len(GraphEdges(graph))
  /\ \A r \in Requests :
       (Done(r, "metrics") /\ result[r].status = "ok")
         => /\ SumFn(result[r].centrality.inDegree) = result[r].basic.edgeCount
            /\ SumFn(result[r].centrality.outDegree) = result[r].basic.edgeCount
\* Metrics were computed on a graph with two or more edges.
C10_Witness ==
  \E r \in Requests :
    Done(r, "metrics") /\ result[r].status = "ok" /\ result[r].basic.edgeCount >= 2

\* C11: the density of a metrics report is edgeCount / (nodeCount *
\* (nodeCount - 1)) when the graph has two or more nodes, and the number 0
\* when it has exactly one.
C11_DensityDefined ==
  \A r \in Requests :
    (Done(r, "metrics") /\ result[r].status = "ok")
      => LET b == result[r].basic IN
           IF b.nodeCount >= 2
           THEN /\ b.density.d # 0
                /\ b.density.n * (b.nodeCount * (b.nodeCount - 1))
                     = b.edgeCount * b.density.d
           ELSE b.density = JsInt(0)

\* C12: the papers a build with maxNodes >= 1 adds as nodes are at most
\* maxNodes (with maxNodes = 0 the query is not limited and every matching
\* paper is added); each added paper has a category of the allowlist (when
\* one is given), a publication date in the date range (when one is given)
\* and at least minCitations citations, and no paper of the store with these
\* three properties that was left out has more citations than one that was
\* added.
Selectable(p, f) ==
  /\ (f.categories = {} \/ \E c \in f.categories : c \in PaperCategories(p))
  /\ (f.dateRange = NoRange
        \/ (PaperYear(p) >= f.dateRange.start /\ PaperYear(p) <= f.dateRange.end))
  /\ PaperCitationCount(p) >= f.minCitations
AddedAreTopMatching(f, added) ==
  /\ Cardinality(added) = Len(GraphNodes(graph))
  /\ \A p \in added : p \in storePapers /\ Selectable(p, f)
  /\ \A q \in storePapers \ added :
       Selectable(q, f) =>
         \A p \in added : PaperCitationCount(q) <= PaperCitationCount(p)
C12_BuildSelectsTopMatching ==
  \A r \in Requests :
    (call[r].op = "build" /\ pc[r] = "await_citations")
      => LET f == call[r].filter
             added == Range(GraphNodes(graph))
         IN /\ f.maxNodes >= 1 => Len(GraphNodes(graph)) <= f.maxNodes
            /\ f.maxNodes = 0 => added = {p \in storePapers : Selectable(p, f)}
            /\ AddedAreTopMatching(f, added)
\* The limit cut a matching paper off and the filter kept another one out.
C12_Witness ==
  /\ call[1].op = "build" /\ pc[1] = "await_citations"
  /\ Len(GraphNodes(graph)) = call[1].filter.maxNodes
  /\ \E q \in storePapers \ Range(GraphNodes(graph)) : Selectable(q, call[1].filter)
  /\ \E q \in storePapers : ~Selectable(q, call[1].filter)
  /\ call[1].filter.dateRange # NoRange
\* C12 as stated: at most maxNodes papers for every maxNodes.
C12_AtMostMaxNodesAlways ==
  \A r \in Requests :
    (call[r].op = "build" /\ pc[r] = "await_citations")
      => /\ Len(GraphNodes(graph)) <= call[r].filter.maxNodes
         /\ AddedAreTopMatching(call[r].filter, Range(GraphNodes(graph)))

\* C13: an identifySeminalPapers call that has returned issued exactly one
\* update, and the ids that update names are the ids of the papers the call
\* returned; a call that failed with NotBuilt issued no update.
ReturnedIds(r) == {result[r].papers[i].paper.id : i \in 1..Len(result[r].papers)}
C13_OneWriteOfReturnedIds ==
  \A r \in Requests :
    Done(r, "seminal") =>
      /\ result[r].status = "ok" =>
           Len(call[r].writes) = 1 /\ call[r].writes[1] = ReturnedIds(r)
      /\ result[r] = Thrown("NotBuilt") => call[r].writes = <<>>
\* A call returned fewer papers than the graph has nodes, and flagged them.
C13_Witness ==
  /\ Done(2, "seminal") /\ result[2].status = "ok"
  /\ Len(result[2].papers) >= 1
  /\ Len(result[2].papers) < Len(GraphNodes(graph))
  /\ storeSeminal = ReturnedIds(2)

\* C14: a step of buildCitationNetwork, calculateNetworkMetrics,
\* analyzeCitationPatterns or exportNetworkData leaves the Paper and
\* Citation collections and the seminal flags as they are; a step of
\* identifySeminalPapers leaves the Paper documents and the Citation
\* collection as they are and only sets seminal flags.
C14_OnlySeminalFlagsWritten ==
  [][\A r \in Requests :
       pc'[r] # pc[r] =>
         /\ call'[r].op \in {"build", "metrics", "patterns", "export"} =>
              /\ storePapers' = storePapers
              /\ storeCitations' = storeCitations
              /\ storeSeminal' = storeSeminal
         /\ call'[r].op = "seminal" =>
              /\ storePapers' = storePapers
              /\ storeCitations' = storeCitations
              /\ storeSeminal \subseteq storeSeminal'
    ]_vars
\* A seminal call that followed a build has set a flag.
C14_Witness ==
  /\ Done(1, "build")
  /\ Done(2, "seminal") /\ storeSeminal # {}

\* C15: for topN >= 0 identifySeminalPapers returns at most topN papers;
\* for every topN each returned paper has citationCount >= minCitations and
\* age >= minAge, the seminal scores do not increase along the list, and no
\* node of the graph that qualifies and was left out has a higher score
\* than a returned paper.
RankingHolds(r) ==
  LET o == call[r].options
      papers == result[r].papers
  IN /\ \A i \in 1..Len(papers) :
          /\ papers[i].paper.citationCount >= o.minCitations
          /\ CurrentYear - PaperYear(papers[i].paper.id) >= o.minAge
     /\ \A i \in 1..Len(papers), j \in 1..Len(papers) :
          i < j => papers[i].seminalScore >= papers[j].seminalScore
     /\ \E centrality \in {CalculateCentralityMetrics(Engine)} :
          \A q \in Range(GraphNodes(graph)) \ ReturnedIds(r) :
            ( /\ PaperCitationCount(q) >= o.minCitations
              /\ CurrentYear - PaperYear(q) >= o.minAge )
              => \A i \in 1..Len(papers) :
                   SeminalScore(MapGet(paperNodes, q), centrality)
                     <= papers[i].seminalScore
C15_SeminalRanking ==
  \A r \in Requests :
    (Done(r, "seminal") /\ result[r].status = "ok")
      => /\ call[r].options.topN >= 0 => Len(result[r].papers) <= call[r].options.topN
         /\ RankingHolds(r)
\* topN cut a qualifying paper off, and another node did not qualify.
C15_Witness ==
  /\ Done(2, "seminal") /\ result[2].status = "ok"
  /\ Len(result[2].papers) = call[2].options.topN
  /\ \E q \in Range(GraphNodes(graph)) \ ReturnedIds(2) :
       Qualifies(MapGet(paperNodes, q), call[2].options)
  /\ \E q \in Range(GraphNodes(graph)) :
       ~Qualifies(MapGet(paperNodes, q), call[2].options)
\* C15 as stated: at most topN papers for every topN.
C15_AtMostTopNAlways ==
  \A r \in Requests :
    (Done(r, "seminal") /\ result[r].status = "ok")
      => /\ Len(result[r].papers) <= call[r].options.topN
         /\ RankingHolds(r)

\* C16: every community of a metrics report has at least 3 members, its
\* members are different nodes of the graph the report was computed on, and
\* its size is the number of its members.
C16_CommunitiesHaveThreeMembers ==
  \A r \in Requests :
    (Done(r, "metrics") /\ result[r].status = "ok")
      => LET found == result[r].communities IN
           /\ found.count = Len(found.communities)
           /\ \A i \in 1..Len(found.communities) :
                LET c == found.communities[i] IN
                  /\ Len(c.members) >= 3
                  /\ Cardinality(Range(c.members)) = Len(c.members)
                  /\ Range(c.members) \subseteq Range(GraphNodes(graph))
                  /\ c.size = Len(c.members)
\* A report holds a community.
C16_Witness ==
  /\ Done(2, "metrics") /\ result[2].status = "ok"
  /\ result[2].communities.count >= 1

\* C17: a JSON export of a built graph lists as many nodes as the graph has
\* and as many edges as the graph has, one per stored citation between two
\* of its nodes (parallel edges counted), and metadata.nodeCount and
\* metadata.edgeCount are the lengths of the two lists.
C17_ExportCountsMatchGraph ==
  \A r \in Requests :
    (Done(r, "export") /\ Done(1, "build") /\ result[1].status = "ok")
      => /\ Len(result[r].nodes) = Len(GraphNodes(graph))
         /\ Len(result[r].edges) = Len(GraphEdges(graph))
         /\ Len(result[r].edges) =
              Cardinality({i \in 1..Len(storeCitations) :
                             /\ GraphHasNode(graph, storeCitations[i].citingPaper)
                             /\ GraphHasNode(graph, storeCitations[i].citedPaper)})
         /\ result[r].metadata.nodeCount = Len(result[r].nodes)
         /\ result[r].metadata.edgeCount = Len(result[r].edges)
\* An export lists two edges between the same pair of nodes.
C17_Witness ==
  /\ Done(2, "export") /\ Done(1, "build") /\ result[1].status = "ok"
  /\ \E i \in 1..Len(result[2].edges), j \in 1..Len(result[2].edges) :
       i < j /\ result[2].edges[i] = result[2].edges[j]

\* C19: the local clustering coefficient of every node of a metrics report
\* lies in [0,1], is 0 when the node has fewer than 2 different
\* out-neighbours, and is otherwise the number of unordered pairs of its
\* different out-neighbours joined by an edge in either direction, divided
\* by k*(k-1)/2 for its k different out-neighbours.
OutNeighbours(n) == {graph.edges[i][2] : i \in {j \in 1..Len(graph.edges) : graph.edges[j][1] = n}}
JoinedPairs(n) ==
  {pair \in SUBSET OutNeighbours(n) :
     /\ Cardinality(pair) = 2
     /\ \E u \in pair, v \in pair :
          u # v /\ \E i \in 1..Len(graph.edges) : graph.edges[i] = <<u, v>>}
C19_LocalClusteringCoefficient ==
  \A r \in Requests :
    (Done(r, "metrics") /\ result[r].status = "ok")
      => \A n \in Range(GraphNodes(graph)) :
           LET c == result[r].clustering.local[n]
               k == Cardinality(OutNeighbours(n))
           IN /\ c.d > 0 /\ c.n >= 0 /\ c.n <= c.d
              /\ IF k < 2 THEN c.n = 0
                 ELSE c.n * ((k * (k - 1)) \div 2) = Cardinality(JoinedPairs(n)) * c.d

\* C20: findShortestPaths(source, target) for two different nodes returns
\* at most 3 paths; each leads from source to target along edges of the
\* graph, repeats no node, has at most 5 edges, and has as many edges as the
\* shortest path from source to target.
RECURSIVE Distance(_, _, _)
\* The least number of edges from a node of the set reached to target, plus
\* steps; -1 when target cannot be reached.
Distance(reached, target, steps) ==
  LET next == reached \cup {graph.edges[i][2] :
                               i \in {j \in 1..Len(graph.edges) : graph.edges[j][1] \in reached}}
  IN IF target \in reached THEN steps
     ELSE IF next = reached THEN -1
     ELSE Distance(next, target, steps + 1)
IsSimplePath(path, source, target) ==
  /\ Len(path) >= 2
  /\ path[1] = source /\ path[Len(path)] = target
  /\ \A i \in 1..Len(path) - 1 :
       \E j \in 1..Len(graph.edges) : graph.edges[j] = <<path[i], path[i + 1]>>
  /\ Cardinality(Range(path)) = Len(path)
C20_PathsAreShortest ==
  \A r \in Requests :
    Done(r, "paths") =>
      LET paths == result[r].paths IN
        /\ Len(paths) <= 3
        /\ \A i \in 1..Len(paths) :
             /\ IsSimplePath(paths[i], call[r].source, call[r].target)
             /\ Len(paths[i]) - 1 <= 5
             /\ Len(paths[i]) - 1 = Distance({call[r].source}, call[r].target, 0)

\* C18: in a GEXF or GraphML export no attribute value holds a reserved XML
\* character (&, <, >, ", ') as it is: every one is written as an entity.
C18_AttributeValuesEscaped ==
  \A r \in Requests :
    (Done(r, "export") /\ result[r].status = "ok" /\ "xml" \in DOMAIN result[r])
      => \A i \in 1..Len(result[r].xml) :
           \A a \in 1..Len(result[r].xml[i].attrs) :
             \A k \in 1..Len(result[r].xml[i].attrs[a][2]) :
               result[r].xml[i].attrs[a][2][k] \notin Reserved
\* C21: a node's betweenness centrality in a metrics report is positive
\* exactly when the node is strictly inside a path that findShortestPaths
\* returns for two different nodes (so never on account of being a path's
\* first or last node); every score lies in [0,1]; the largest score is 1
\* when some node is inside a path, and all scores are 0 otherwise.
InsideSomePath(n) ==
  \E s \in Range(GraphNodes(graph)), t \in Range(GraphNodes(graph)) :
    /\ s # t
    /\ \E paths \in {FindShortestPaths(graph, s, t)} :
         \E i \in 1..Len(paths) : \E k \in 2..(Len(paths[i]) - 1) : paths[i][k] = n
C21_BetweennessNormalised ==
  \A r \in Requests :
    (Done(r, "metrics") /\ result[r].status = "ok")
      => LET b == result[r].centrality.betweenness IN
           /\ DOMAIN b = Range(GraphNodes(graph))
           /\ \A n \in DOMAIN b :
                /\ b[n].d > 0 /\ b[n].n >= 0 /\ b[n].n <= b[n].d
                /\ b[n].n > 0 <=> InsideSomePath(n)
           /\ IF \E n \in DOMAIN b : InsideSomePath(n)
              THEN \E n \in DOMAIN b : b[n] = JsInt(1)
              ELSE \A n \in DOMAIN b : b[n] = JsInt(0)
\* A report in which one node has the score 1 and another a score strictly
\* between 0 and 1.
C21_Witness ==
  /\ Done(2, "metrics") /\ result[2].status = "ok"
  /\ \E n \in DOMAIN result[2].centrality.betweenness :
       result[2].centrality.betweenness[n] = JsInt(1)
  /\ \E n \in DOMAIN result[2].centrality.betweenness :
       LET x == result[2].centrality.betweenness[n] IN x.n > 0 /\ x.n < x.d

\* C22: the components of a metrics report partition the graph's nodes; two
\* nodes are in the same component exactly when a path that ignores the
\* direction of the edges joins them; the components are listed in
\* non-increasing order of size; count is their number and largest the size
\* of the biggest one.
RECURSIVE JoinedTo(_)
\* The nodes an undirected path joins to a node of the set.
JoinedTo(S) ==
  LET next == S \cup {graph.edges[i][2] : i \in {j \in 1..Len(graph.edges) : graph.edges[j][1] \in S}}
                 \cup {graph.edges[i][1] : i \in {j \in 1..Len(graph.edges) : graph.edges[j][2] \in S}}
  IN IF next = S THEN S ELSE JoinedTo(next)
C22_ComponentsPartitionNodes ==
  \A r \in Requests :
    (Done(r, "metrics") /\ result[r].status = "ok")
      => LET report == result[r].components
             comps == report.components
         IN /\ UNION {Range(comps[i]) : i \in 1..Len(comps)} = Range(GraphNodes(graph))
            /\ \A i \in 1..Len(comps) :
                 /\ comps[i] # <<>>
                 /\ Cardinality(Range(comps[i])) = Len(comps[i])
                 /\ Range(comps[i]) = JoinedTo({comps[i][1]})
            /\ \A i \in 1..Len(comps), j \in 1..Len(comps) :
                 /\ i # j => Range(comps[i]) \cap Range(comps[j]) = {}
                 /\ i < j => Len(comps[i]) >= Len(comps[j])
            /\ report.count = Len(comps)
            /\ \A i \in 1..Len(comps) : Len(comps[i]) <= report.largest
            /\ \E i \in 1..Len(comps) : Len(comps[i]) = report.largest
\* A report with two components, the larger one held together by an edge
\* that leads to a node inserted before its source.
C22_Witness ==
  /\ Done(2, "metrics") /\ result[2].status = "ok"
  /\ result[2].components.count = 2
  /\ Len(result[2].components.components[1]) = 2
  /\ \E i \in 1..Len(graph.edges) :
       \E a \in 1..Len(graph.nodes), b \in 1..Len(graph.nodes) :
         a < b /\ graph.edges[i] = <<graph.nodes[b], graph.nodes[a]>>

\* C29: in the components report of a metrics report, sizes[i] is the
\* number of nodes of components[i] for every index i.
C29_SizesAlignedWithComponents ==
  \A r \in Requests :
    (Done(r, "metrics") /\ result[r].status = "ok")
      => LET report == result[r].components IN
           /\ Len(report.sizes) = Len(report.components)
           /\ \A i \in 1..Len(report.components) :
                report.sizes[i] = Len(report.components[i])

\* C23: calculatePaperSimilarity(p1, p2) is 0.4 J(categories)
\* + 0.3 J(keywords) + 0.3 J(author names), J being the size of the
\* intersection over the size of the union, and 0 when a set is empty; two
\* papers with the same non-empty categories, no keywords and no authors
\* have similarity 0.4, which is above the community threshold 0.3.
Jaccard(A, B) ==
  IF A = {} \/ B = {} THEN JsInt(0)
  ELSE JsDiv(Cardinality(A \cap B), Cardinality(A \cup B))
WeightedJaccard(paper1, paper2) ==
  JsAdd(JsAdd(JsMul(JsDiv(4, 10), Jaccard(paper1.categories, paper2.categories)),
              JsMul(JsDiv(3, 10), Jaccard(paper1.keywords, paper2.keywords))),
        JsMul(JsDiv(3, 10), Jaccard(paper1.authors, paper2.authors)))
C23_SimilarityIsWeightedJaccard ==
  \A r \in Requests :
    Done(r, "similarity") =>
      LET paper1 == MapGet(paperNodes, call[r].paper1)
          paper2 == MapGet(paperNodes, call[r].paper2)
      IN /\ result[r].similarity = WeightedJaccard(paper1, paper2)
         /\ ( /\ paper1.categories = paper2.categories /\ paper1.categories # {}
              /\ paper1.keywords = {} /\ paper2.keywords = {}
              /\ paper1.authors = {} /\ paper2.authors = {} )
              => /\ result[r].similarity = JsDiv(4, 10)
                 /\ JsGreater(result[r].similarity, JsDiv(3, 10))

\* C24: in a patterns report no key of the lag distribution is negative and
\* its counts add up to the number of edges with citingYear - citedYear >= 0;
\* every edge of the graph, whatever its lag, counts once in the citing
\* count of its citing year and once in the cited count of its cited year;
\* the mean lag is the mean of the lags that are not negative.
EdgeYears(i) ==
  [citing |-> MapGet(paperNodes, graph.edges[i][1]).publishedDate,
   cited |-> MapGet(paperNodes, graph.edges[i][2]).publishedDate]
C24_TemporalCountsEveryEdge ==
  \A r \in Requests :
    (Done(r, "patterns") /\ result[r].status = "ok")
      => LET t == result[r].temporal
             kept == {i \in 1..Len(graph.edges) : EdgeYears(i).citing - EdgeYears(i).cited >= 0}
             lags == [i \in kept |-> EdgeYears(i).citing - EdgeYears(i).cited]
         IN /\ \A k \in DOMAIN t.citationLagDistribution : k >= 0
            /\ SumFn(t.citationLagDistribution) = Cardinality(kept)
            /\ \A i \in 1..Len(graph.edges) :
                 /\ EdgeYears(i).citing \in DOMAIN t.yearlyData
                 /\ EdgeYears(i).cited \in DOMAIN t.yearlyData
            /\ \A y \in DOMAIN t.yearlyData :
                 /\ t.yearlyData[y].citing =
                      Cardinality({i \in 1..Len(graph.edges) : EdgeYears(i).citing = y})
                 /\ t.yearlyData[y].cited =
                      Cardinality({i \in 1..Len(graph.edges) : EdgeYears(i).cited = y})
            /\ t.avgCitationLag = JsDiv(SumFn(lags), Cardinality(kept))

\* C25: every entry of the crossDisciplinary list of a patterns report names
\* a citation whose two papers have no category in common; a citation
\* between two papers that share a category has no entry, and
\* crossDisciplinaryCount is the number of entries.
C25_CrossDisciplinaryShareNoCategory ==
  \A r \in Requests :
    (Done(r, "patterns") /\ result[r].status = "ok")
      => LET c == result[r].categorical IN
           /\ \A x \in c.crossDisciplinary :
                MapGet(paperNodes, x.sourcePaper).categories
                  \cap MapGet(paperNodes, x.targetPaper).categories = {}
           /\ c.crossDisciplinaryCount = Cardinality(c.crossDisciplinary)

\* C26: an identifySeminalPapers call, overlapped by a build or not, examines
\* the nodes of the graph its metrics were computed on: every examined node
\* has an in-degree, an authority and a betweenness in those metrics; and a
\* call whose own auto-build returned a graph with a node does not fail with
\* NotBuilt.
C26_SeminalUsesOneGraph ==
  \A r \in Requests :
    call[r].op = "seminal" =>
      /\ Range(call[r].examined) \subseteq call[r].measured
      /\ (pc[r] = "done" /\ call[r].built.status = "ok" /\ call[r].built.nodes >= 1)
           => result[r] # Thrown("NotBuilt")
\* A seminal call ranked after its auto-build, during which another build
\* had cleared the graph and added its own nodes.
C26_Witness ==
  \E r \in Requests, b \in Requests :
    /\ Done(r, "seminal") /\ result[r].status = "ok"
    /\ call[r].built.status = "ok"
    /\ call[b].op = "build" /\ call[b].filter = FilterCs
    /\ Len(call[r].examined) >= 1
    /\ Len(call[r].examined) < Len(call[r].papers)

\* C27: a paper that an identifySeminalPapers call returned, and so flagged,
\* is flagged in the store ever after, whatever builds and seminal calls
\* follow and whether or not a later call returns it.
C27_SeminalFlagNeverCleared ==
  \A r \in Requests :
    (Done(r, "seminal") /\ result[r].status = "ok")
      => ReturnedIds(r) \subseteq storeSeminal
\* Two calls have returned, and the second did not return a paper the first
\* had flagged.
C27_Witness ==
  /\ Done(1, "seminal") /\ result[1].status = "ok"
  /\ Done(2, "seminal") /\ result[2].status = "ok"
  /\ call[2].before.graph # EmptyGraph
  /\ ReturnedIds(1) \ ReturnedIds(2) # {}
  /\ ReturnedIds(2) # {}

\* C28: in every state in which another request can run (a build suspended
\* at either store query, or returned, or failed), the keys of paperNodes
\* are the nodes of the graph.
PaperNodeKeys == {paperNodes[i][1] : i \in 1..Len(paperNodes)}
C28_PaperNodesKeysAreGraphNodes == PaperNodeKeys = Range(GraphNodes(graph))
\* A build is suspended at its citation query after another build cleared
\* the engine and added nodes of its own.
C28_Witness ==
  \E a \in Requests, b \in Requests :
    /\ a # b
    /\ call[a].op = "build" /\ pc[a] = "await_citations"
    /\ call[b].op = "build" /\ pc[b] = "await_citations"
    /\ call[a].papers # call[b].papers
    /\ Len(GraphNodes(graph)) >= 1

\* C30: the communities one detectCommunities pass returns have no node in
\* common, and no node of a group the pass discarded for having fewer than
\* 3 members is a member of a returned community.
C30_CommunitiesAreDisjoint ==
  \A r \in Requests :
    Done(r, "communities") =>
      LET found == result[r].communities.communities IN
        /\ \A i \in 1..Len(found), j \in 1..Len(found) :
             i # j => Range(found[i].members) \cap Range(found[j].members) = {}
        /\ \A k \in 1..Len(call[r].discarded) :
             /\ Len(call[r].discarded[k]) < 3
             /\ \A i \in 1..Len(found) :
                  Range(call[r].discarded[k]) \cap Range(found[i].members) = {}
\* A pass returned two communities joined by a citation, and discarded a
\* group that had absorbed a second node.
C30_Witness ==
  /\ Done(2, "communities")
  /\ result[2].communities.count = 2
  /\ \E k \in 1..Len(call[2].discarded) : Len(call[2].discarded[k]) = 2
  /\ \E i \in 1..Len(graph.edges) :
       /\ graph.edges[i][1] \in Range(result[2].communities.communities[1].members)
       /\ graph.edges[i][2] \in Range(result[2].communities.communities[2].members)

====
